---- MODULE Spec2Model ----
(***************************************************************************)
(* A model of logfunc's @logf decorator (src/logfunc/main.py): the         *)
(* resolution of its configuration from keyword options and LOGF_*         *)
(* environment variables, the wrapper installed around a callable (sync    *)
(* and async bodies), the thread-local depth counter used to suppress      *)
(* duplicate exception logs, and the messages handed to the sink.          *)
(*                                                                         *)
(* Strings are sequences of one-character strings, so that lower(),        *)
(* int(), slicing and formatting are computed and not assumed.  An         *)
(* optional value is <<>> (None / not given) or <<v>>.                     *)
(***************************************************************************)
EXTENDS Integers, Sequences, FiniteSets, TLC

VARIABLES
    env,        \* os.environ restricted to the LOGF_* keys: key -> <<>> or <<string>>
    sink_ok,    \* FALSE: the sink (print / logger) raises when it is called
    coro,       \* coro[f]: f is defined with "async def" (inspect.iscoroutinefunction)
    deco,       \* the result of the latest "d = logf(**opts)": its closure, or that it raised
    funcs,      \* funcs[f]: <<>> while f is not instrumented, else <<closure of its decorator>>
    depth,      \* depth[t]: _local.depth of thread t, <<>> when the attribute is absent
    stack,      \* stack[t]: the wrapper frames of thread t, innermost last
    trace,      \* trace[t]: what thread t's current top-level call emitted and ran, in order
    outcome,    \* outcome[t]: <<>> or <<what the latest top-level call delivered to its caller>>
    call,       \* call[t]: <<>> or <<[func, args]>> of the latest top-level call
    pure        \* <<>> or <<the latest direct call of a utility function: its input and output>>

vars == <<env, sink_ok, coro, deco, funcs, depth, stack, trace, outcome, call, pure>>

---------------------------------------------------------------------------
(* Bounds of the model.                                                    *)

\* the threads of the program: the main thread 1 and the worker threads
NThreads == 3
\* the distinct configurations the instrumented functions carry at one time
MaxConfigs == 2
\* decorations stop when the decorating thread's depth counter is this high
MaxDepth == 4
\* the LOGF_* keys set in an environment of the configuration runs
MaxEnvSet == 1
\* the length of the strings handed to the utility functions
MaxStrLen == 3

---------------------------------------------------------------------------
(* Strings.                                                                *)

None == <<>>
Some(v) == <<v>>

UpperLetters == <<"A","B","C","D","E","F","G","H","I","J","K","L","M",
                  "N","O","P","Q","R","S","T","U","V","W","X","Y","Z">>
LowerLetters == <<"a","b","c","d","e","f","g","h","i","j","k","l","m",
                  "n","o","p","q","r","s","t","u","v","w","x","y","z">>
DigitChars == <<"0","1","2","3","4","5","6","7","8","9">>

IndexIn(c, letters) ==
    IF \E i \in 1..Len(letters) : letters[i] = c
    THEN CHOOSE i \in 1..Len(letters) : letters[i] = c
    ELSE 0

\* str.lower()
lower(s) ==
    [i \in 1..Len(s) |->
        IF IndexIn(s[i], UpperLetters) > 0
        THEN LowerLetters[IndexIn(s[i], UpperLetters)]
        ELSE s[i]]

\* str.upper()
upper(s) ==
    [i \in 1..Len(s) |->
        IF IndexIn(s[i], LowerLetters) > 0
        THEN UpperLetters[IndexIn(s[i], LowerLetters)]
        ELSE s[i]]

IsDigits(s) == Len(s) > 0 /\ \A i \in 1..Len(s) : IndexIn(s[i], DigitChars) > 0

\* int(s) succeeds: an optional sign followed by decimal digits
IsIntLiteral(s) ==
    /\ Len(s) > 0
    /\ IF s[1] \in {"-", "+"} THEN IsDigits(Tail(s)) ELSE IsDigits(s)

RECURSIVE DigitsValue(_)
DigitsValue(s) ==
    IF Len(s) = 0 THEN 0
    ELSE 10 * DigitsValue(SubSeq(s, 1, Len(s) - 1)) + (IndexIn(s[Len(s)], DigitChars) - 1)

\* int(s), for an s on which it succeeds
int(s) ==
    IF s[1] = "-" THEN 0 - DigitsValue(Tail(s))
    ELSE IF s[1] = "+" THEN DigitsValue(Tail(s))
    ELSE DigitsValue(s)

\* str(n) for an integer n
RECURSIVE NatStr(_)
NatStr(n) == IF n < 10 THEN <<DigitChars[n + 1]>> ELSE NatStr(n \div 10) \o <<DigitChars[(n % 10) + 1]>>
IntStr(n) == IF n < 0 THEN <<"-">> \o NatStr(0 - n) ELSE NatStr(n)

\* sub occurs in s (Python: sub in s)
Contains(s, sub) ==
    \E i \in 0..(Len(s) - Len(sub)) : SubSeq(s, i + 1, i + Len(sub)) = sub

S_true == <<"t","r","u","e">>
S_none == <<"n","o","n","e">>

---------------------------------------------------------------------------
(* Configuration: logf's keyword options, the environment overrides.       *)

EVARS == <<"LOGF_USE_PRINT", "LOGF_SINGLE_MSG", "LOGF_MAX_STR_LEN", "LOGF_LEVEL",
           "LOGF_LOG_ARGS", "LOGF_LOG_RETURN", "LOGF_LOG_EXEC_TIME", "LOGF_USE_LOGGER",
           "LOGF_STACK_INFO", "LOGF_LOG_EXCEPTION", "LOGF_SINGLE_EXCEPTION">>

EvarSet == {EVARS[i] : i \in 1..Len(EVARS)}

TRUNC_STR_LEN == 1000

\* Env(): every key read with os.environ.get
Env(environ) == [ev \in EvarSet |-> environ[ev]]

\* the keyword arguments of a logf(...) call that gives none; measure_time and
\* identifier are not in the signature and land in **kwargs
NoOpts ==
    [level |-> None, log_args |-> None, log_return |-> None, max_str_len |-> None,
     log_exec_time |-> None, single_msg |-> None, use_print |-> None,
     use_logger |-> None, log_stack_info |-> None, log_exception |-> None,
     single_exception |-> None, measure_time |-> None, identifier |-> None]

\* the defaults of logf's signature; level and use_logger default to None, and
\* max_str_len is itself a value or None
Defaults ==
    [level |-> None, log_args |-> TRUE, log_return |-> TRUE,
     max_str_len |-> Some(TRUNC_STR_LEN), log_exec_time |-> TRUE, single_msg |-> FALSE,
     use_print |-> FALSE, use_logger |-> None, log_stack_info |-> FALSE,
     log_exception |-> TRUE, single_exception |-> TRUE]

\* the names of the parameters whose value is itself None or a value
Nullable == {"level", "use_logger"}

\* a parameter's value in logf's body: the argument given, else the signature's default
Param(opts, name, default) ==
    IF opts[name] = None THEN default
    ELSE IF name \in Nullable THEN opts[name] ELSE opts[name][1]

\* logf's parameters on entry (the signature's defaults applied), then measure_time
LogfParams(opts) ==
    [name \in DOMAIN Defaults |->
        IF name = "log_exec_time" /\ opts.measure_time # None
        THEN opts.measure_time[1]
        ELSE Param(opts, name, Defaults[name])]

\* the "for ev in EVARS" loop raises: int(_ev) on a LOGF_MAX_STR_LEN that is no integer
EnvLoopRaises(_env) ==
    /\ _env["LOGF_MAX_STR_LEN"] # None
    /\ lower(_env["LOGF_MAX_STR_LEN"][1]) # S_none
    /\ ~IsIntLiteral(_env["LOGF_MAX_STR_LEN"][1])

\* a boolean branch that compares the value as it is spelled
BoolOverride_Exact(_env, ev, cur) ==
    IF _env[ev] # None THEN _env[ev][1] = S_true ELSE cur

\* one boolean branch of the loop: _ev.lower() == 'true' when the key is set
BoolOverride(_env, ev, cur) ==
    IF _env[ev] # None THEN lower(_env[ev][1]) = S_true ELSE cur

\* the "for ev in EVARS" loop, when it does not raise; each key assigns its own
\* parameter, so the order of the keys does not matter
EnvLoop(p, _env) ==
    [level            |-> p.level,
     log_args         |-> BoolOverride(_env, "LOGF_LOG_ARGS", p.log_args),
     log_return       |-> BoolOverride(_env, "LOGF_LOG_RETURN", p.log_return),
     max_str_len      |-> IF _env["LOGF_MAX_STR_LEN"] # None
                          THEN IF lower(_env["LOGF_MAX_STR_LEN"][1]) = S_none
                               THEN None
                               ELSE Some(int(_env["LOGF_MAX_STR_LEN"][1]))
                          ELSE p.max_str_len,
     log_exec_time    |-> BoolOverride(_env, "LOGF_LOG_EXEC_TIME", p.log_exec_time),
     single_msg       |-> BoolOverride(_env, "LOGF_SINGLE_MSG", p.single_msg),
     use_print        |-> BoolOverride(_env, "LOGF_USE_PRINT", p.use_print),
     use_logger       |-> IF _env["LOGF_USE_LOGGER"] # None
                          THEN IF Len(_env["LOGF_USE_LOGGER"][1]) > 0
                               THEN Some(_env["LOGF_USE_LOGGER"][1])
                               ELSE None
                          ELSE p.use_logger,
     log_stack_info   |-> BoolOverride(_env, "LOGF_STACK_INFO", p.log_stack_info),
     log_exception    |-> BoolOverride(_env, "LOGF_LOG_EXCEPTION", p.log_exception),
     single_exception |-> BoolOverride(_env, "LOGF_SINGLE_EXCEPTION", p.single_exception)]

\* the configuration captured by the closure logf(**opts) returns
LogfConfig(opts, environ) == EnvLoop(LogfParams(opts), Env(environ))

---------------------------------------------------------------------------
(* Log levels and the level gate.                                          *)

\* a level given by name ('info') or as an int (20)
LvName(s) == [isint |-> FALSE, s |-> s, n |-> 0]
LvInt(n) == [isint |-> TRUE, s |-> <<>>, n |-> n]

L_DEBUG == <<"D","E","B","U","G">>
L_INFO == <<"I","N","F","O">>
L_WARNING == <<"W","A","R","N","I","N","G">>
L_ERROR == <<"E","R","R","O","R">>
L_CRITICAL == <<"C","R","I","T","I","C","A","L">>
LevelNames == {L_DEBUG, L_INFO, L_WARNING, L_ERROR, L_CRITICAL}

\* logging.getLevelName(name) for the five standard names
getLevelName(name) ==
    CASE name = L_DEBUG -> 10
      [] name = L_INFO -> 20
      [] name = L_WARNING -> 30
      [] name = L_ERROR -> 40
      [] name = L_CRITICAL -> 50

\* loglevel_int(level): None is DEBUG, a name is looked up in upper case
loglevel_int(level) ==
    IF level = None THEN 10
    ELSE IF level[1].isint THEN level[1].n
    ELSE getLevelName(upper(level[1].s))

\* get_evar('LOGF_LEVEL', curval): an int, else a known level name, else curval
get_evar_LEVEL(environ, curval) ==
    LET val == environ["LOGF_LEVEL"] IN
    IF val = None THEN curval
    ELSE IF IsIntLiteral(val[1]) THEN Some(LvInt(int(val[1])))
    ELSE IF upper(val[1]) \in LevelNames THEN Some(LvName(upper(val[1])))
    ELSE curval

---------------------------------------------------------------------------
(* Values, exceptions, the instrumented functions' own code.               *)

Funcs == {"f1", "f2", "f3"}

\* func.__name__
func_name(f) ==
    CASE f = "f1" -> <<"f","1">>
      [] f = "f2" -> <<"f","2">>
      [] f = "f3" -> <<"f","3">>

\* what a call delivers: a value returned or an exception raised
Ret(v) == [kind |-> "return", val |-> v, etype |-> "", emsg |-> <<>>]
Raise(etype, emsg) == [kind |-> "raise", val |-> 0, etype |-> etype, emsg |-> emsg]

\* asyncio.CancelledError thrown into an awaiting coroutine: a BaseException that
\* "except Exception" does not catch
Cancelled == [kind |-> "cancel", val |-> 0, etype |-> "CancelledError", emsg |-> <<>>]

E_a_is_4 == <<"a"," ","i","s"," ","4">>
E_float_none == <<"-",":"," ","'","f","l","o","a","t","'"," ","a","n","d"," ",
                  "'","N","o","n","e","T","y","p","e","'">>
E_sink == <<"s","i","n","k">>
E_str == <<"s","t","r">>

\* the model's object whose __str__ raises (every other value is an int)
Unprintable == 0 - 1
StrRaises(v) == v = Unprintable

\* type(e).__name__ as text
TypeName(etype) ==
    CASE etype = "ValueError" -> <<"V","a","l","u","e","E","r","r","o","r">>
      [] etype = "TypeError" -> <<"T","y","p","e","E","r","r","o","r">>
      [] etype = "SinkError" -> <<"S","i","n","k","E","r","r","o","r">>
      [] etype = "StrError" -> <<"S","t","r","E","r","r","o","r">>
      [] OTHER -> <<>>

\* the arguments of a call: f(a, k=k)
ArgValues == {1, 4}
KwValues == {"w", "x"}
CallArgs == [a : ArgValues, k : KwValues]

\* the function called by f's body: f1 returns f2(...), f2 returns f3(...)
Callee(f) ==
    CASE f = "f1" -> Some("f2")
      [] f = "f2" -> Some("f3")
      [] f = "f3" -> None

\* the innermost function: raises ValueError on a == 4, else returns a
LeafOutcome(args) ==
    IF args.a = 4 THEN Raise("ValueError", E_a_is_4) ELSE Ret(args.a)

\* str(args) for the tuple (a,) and str(kwargs) for {'k': k}
str_args(args) == <<"(">> \o IntStr(args.a) \o <<",", ")">>
str_kwargs(args) == <<"{", "'", "k", "'", ":", " ", "'", args.k, "'", "}">>

\* str(result)
str_value(v) == IntStr(v)

---------------------------------------------------------------------------
(* Message templates and truncation.                                       *)

\* s[0:m] for any integer m
Slice0(s, m) ==
    IF m >= 0
    THEN SubSeq(s, 1, IF m < Len(s) THEN m ELSE Len(s))
    ELSE SubSeq(s, 1, IF Len(s) + m > 0 THEN Len(s) + m ELSE 0)

Ellipsis == <<".", ".", ".">>

\* trunc_str(tstr, max_length), tstr already a string
trunc_str(tstr, max_length) ==
    IF max_length = None \/ Len(tstr) < max_length[1]
    THEN tstr
    ELSE Slice0(tstr, max_length[1]) \o Ellipsis

\* the first trunc_str of the package: cut to max_length - 3 characters when longer
trunc_str_init(string, max_length) ==
    IF max_length = None THEN string
    ELSE IF Len(string) > max_length[1]
    THEN Slice0(string, max_length[1] - 3) \o Ellipsis
    ELSE string

\* '%.5f' % seconds; the clock of the model does not advance
ExecTimeStr == <<"0", ".", "0", "0", "0", "0", "0">>

\* ARGSSTR
ArgsStr(func_args, func_kwargs) == func_args \o <<" ">> \o func_kwargs
\* ENTER_MSG
EnterMsg(name, args_str) == name \o <<"(", ")", " ", "|", " ">> \o args_str
\* EXIT_MSG
ExitMsg(name, exec_time, result) ==
    name \o <<"(", ")", " ">> \o exec_time \o <<"s", " ", "|", " ">> \o result
\* SINGLE_MSG
SingleMsg(name, exec_time, args_str, result) ==
    name \o <<"(", ")", " ">> \o exec_time \o <<"s", " ", "|", " ">> \o args_str
         \o <<" ", "|", " ">> \o result
\* ERROR_MSG
ErrorMsg(name, exc_type, exc_val) ==
    <<"E","R","R","O","R"," ">> \o name \o <<"(", ")", ":", " ">> \o exc_type
        \o <<" ", "|", " ">> \o exc_val

---------------------------------------------------------------------------
(* What a thread's trace records.                                          *)

Msg(f, kind, text, via, level, delivered) ==
    [ev |-> "msg", func |-> f, kind |-> kind, text |-> text, via |-> via,
     level |-> level, delivered |-> delivered]
Begin(f) ==
    [ev |-> "begin", func |-> f, kind |-> "", text |-> <<>>, via |-> "",
     level |-> 0, delivered |-> TRUE]
End(f) ==
    [ev |-> "end", func |-> f, kind |-> "", text |-> <<>>, via |-> "",
     level |-> 0, delivered |-> TRUE]

\* print(logmsg): the events, and whether print raised
print(f, kind, logmsg, ok) ==
    [events |-> <<Msg(f, kind, logmsg, "print", 0, ok)>>, raised |-> ~ok]

\* handle_log(logmsg, level, use_logger, ...): the message is dropped when its level
\* is below the LOGF_LEVEL threshold, else handed to the logger; a logger that
\* raises is contained here
handle_log(f, kind, logmsg, level, environ, ok) ==
    LET level_int == loglevel_int(level)
        env_level_int == loglevel_int(get_evar_LEVEL(environ, Some(LvName(L_DEBUG))))
    IN  IF env_level_int - level_int > 0
        THEN <<>>
        ELSE <<Msg(f, kind, logmsg, "log", level_int, ok)>>

---------------------------------------------------------------------------
(* The wrapper: decoration, the depth counter, the code around the call.   *)

Threads == 1..NThreads

\* a wrapper(func) that creates the counter at 0 instead of 1
WrapperDepth_FromZero(cfg, d) ==
    IF cfg.log_exception /\ cfg.single_exception
    THEN IF d # None THEN Some(d[1] + 1) ELSE Some(0)
    ELSE d

\* wrapper(func): the thread's depth counter after a decoration
WrapperDepth(cfg, d) ==
    IF cfg.log_exception /\ cfg.single_exception
    THEN IF d # None THEN Some(d[1] + 1) ELSE Some(1)
    ELSE d

\* the test of the except clause whose branch is "pass": the counter exists and is
\* not 1 (sync body), is above 1 (async body)
Suppressed(is_async, d) ==
    d # None /\ (IF is_async THEN d[1] > 1 ELSE d[1] # 1)

\* a finally clause that decrements without looking whether the counter exists
FinallyDepth_Unguarded(d) ==
    IF d = None THEN Some(0 - 1)
    ELSE IF d[1] - 1 = 0 THEN None ELSE Some(d[1] - 1)

\* the finally clause: decrement the counter if it exists, delete it at zero
FinallyDepth(d) ==
    IF d # None
    THEN IF d[1] - 1 = 0 THEN None ELSE Some(d[1] - 1)
    ELSE d

\* the frame of one invocation of an instrumented function
NewFrame(f, closure, args) ==
    [func |-> f, cfg |-> closure.cfg, is_async |-> closure.is_async, pc |-> "pre",
     args |-> args, args_str |-> <<>>, rendered |-> FALSE, start_time |-> None,
     sub |-> None]

\* str(args) raises: the arguments are rendered and one of them cannot be
RenderRaises(fr) == fr.cfg.log_args /\ StrRaises(fr.args.a)

\* trunc_str(result, max_str_len) raises in str(tstr)
ResultStrRaises(fr, r) == fr.cfg.log_return /\ StrRaises(r.val)

\* a wrapper that renders the arguments whatever log_args says
CallContext_Render(fr) ==
    [fr EXCEPT
        !.start_time = IF fr.cfg.log_exec_time THEN Some(0) ELSE None,
        !.rendered = TRUE,
        !.args_str = ArgsStr(str_args(fr.args), str_kwargs(fr.args))]

\* start_time and args_str: the arguments are rendered only when log_args is set
CallContext(fr) ==
    [fr EXCEPT
        !.start_time = IF fr.cfg.log_exec_time THEN Some(0) ELSE None,
        !.rendered = fr.cfg.log_args,
        !.args_str = IF fr.cfg.log_args
                     THEN ArgsStr(str_args(fr.args), str_kwargs(fr.args))
                     ELSE <<>>]

\* a wrapper that emits the enter message in single-message mode too
EnterEmit_Always(fr, environ, ok) ==
    LET logmsg == EnterMsg(func_name(fr.func), fr.args_str) IN
    IF fr.cfg.use_print
    THEN print(fr.func, "enter", logmsg, ok)
    ELSE [events |-> handle_log(fr.func, "enter", logmsg, fr.cfg.level, environ, ok),
          raised |-> FALSE]

\* the enter message: none in single-message mode, else print or handle_log
EnterEmit(fr, environ, ok) ==
    IF fr.cfg.single_msg
    THEN [events |-> <<>>, raised |-> FALSE]
    ELSE LET logmsg == EnterMsg(func_name(fr.func), fr.args_str) IN
         IF fr.cfg.use_print
         THEN print(fr.func, "enter", logmsg, ok)
         ELSE [events |-> handle_log(fr.func, "enter", logmsg, fr.cfg.level, environ, ok),
               raised |-> FALSE]

\* a wrapper that calls the wrapped callable before it emits the enter message
EnterEvents_Late(fr, emitted) == <<Begin(fr.func)>> \o emitted

\* what the wrapper records up to the moment the wrapped callable starts
EnterEvents(fr, emitted) == emitted \o <<Begin(fr.func)>>

\* the except clause for exception r: nothing when suppressed; with use_print the
\* traceback lines are formatted and dropped; else the error message goes to handle_log
ExceptEmit(fr, r, d, environ, ok) ==
    IF Suppressed(fr.is_async, d)
    THEN <<>>
    ELSE IF fr.cfg.use_print
    THEN <<>>
    ELSE handle_log(fr.func, "error",
                    ErrorMsg(func_name(fr.func), TypeName(r.etype), r.emsg),
                    Some(LvName(L_ERROR)), environ, ok)

\* an except clause out of which the failure of the sink propagates
Reraise_SinkMasks(r, emitted) ==
    IF \E i \in 1..Len(emitted) : ~emitted[i].delivered
    THEN Raise("SinkError", E_sink)
    ELSE r

\* what the except clause raises once it has logged: the exception it caught
Reraise(r, emitted) == r

\* the exec_time field: the sync body's single message subtracts start_time unguarded
ExecTimeFails(fr) ==
    fr.cfg.single_msg /\ ~fr.is_async /\ fr.start_time = None

ExecTime(fr) == IF fr.cfg.log_exec_time THEN ExecTimeStr ELSE <<>>

\* the exit or single message for result r
ExitLogmsg(fr, r) ==
    LET result == IF fr.cfg.log_return
                  THEN trunc_str(str_value(r.val), fr.cfg.max_str_len)
                  ELSE <<>>
    IN  IF fr.cfg.single_msg
        THEN SingleMsg(func_name(fr.func), ExecTime(fr), fr.args_str, result)
        ELSE ExitMsg(func_name(fr.func), ExecTime(fr), result)

\* after the wrapped callable returned r: build the message, emit it, return r
ExitPart(fr, r, environ, ok) ==
    IF ExecTimeFails(fr)
    THEN [out |-> Raise("TypeError", E_float_none), events |-> <<>>]
    ELSE IF ResultStrRaises(fr, r)
    THEN [out |-> Raise("StrError", E_str), events |-> <<>>]
    ELSE LET kind == IF fr.cfg.single_msg THEN "single" ELSE "exit"
             emit == IF fr.cfg.use_print
                     THEN print(fr.func, kind, ExitLogmsg(fr, r), ok)
                     ELSE [events |-> handle_log(fr.func, kind, ExitLogmsg(fr, r),
                                                 fr.cfg.level, environ, ok),
                           raised |-> FALSE]
         IN  [out |-> IF emit.raised THEN Raise("SinkError", E_sink) ELSE r,
              events |-> emit.events]

\* a wrapper whose cleanup sits in the "except Exception" clause and after the call
\* instead of a finally clause: a CancelledError passes it by
WrapperPost_NoFinally(fr, r, d, environ, ok) ==
    IF r.kind = "cancel"
    THEN [out |-> r, events |-> <<>>, depth |-> d]
    ELSE IF fr.cfg.log_exception
    THEN IF r.kind = "raise"
         THEN LET emitted == ExceptEmit(fr, r, d, environ, ok) IN
              [out |-> Reraise(r, emitted), events |-> emitted, depth |-> FinallyDepth(d)]
         ELSE LET x == ExitPart(fr, r, environ, ok) IN
              [out |-> x.out, events |-> x.events, depth |-> FinallyDepth(d)]
    ELSE IF r.kind = "raise"
         THEN [out |-> r, events |-> <<>>, depth |-> d]
         ELSE LET x == ExitPart(fr, r, environ, ok) IN
              [out |-> x.out, events |-> x.events, depth |-> d]

\* the wrapper from the moment the wrapped callable delivered r, with the thread's
\* counter at d: what the wrapper delivers, what it emits, the counter afterwards
WrapperPost(fr, r, d, environ, ok) ==
    IF fr.cfg.log_exception
    THEN IF r.kind = "raise"
         THEN LET emitted == ExceptEmit(fr, r, d, environ, ok) IN
              [out |-> Reraise(r, emitted), events |-> emitted, depth |-> FinallyDepth(d)]
         ELSE IF r.kind = "cancel"
         THEN [out |-> r, events |-> <<>>, depth |-> FinallyDepth(d)]
         ELSE LET x == ExitPart(fr, r, environ, ok) IN
              [out |-> x.out, events |-> x.events, depth |-> FinallyDepth(d)]
    ELSE IF r.kind # "return"
         THEN [out |-> r, events |-> <<>>, depth |-> d]
         ELSE LET x == ExitPart(fr, r, environ, ok) IN
              [out |-> x.out, events |-> x.events, depth |-> d]

\* what the wrapper records from the moment the wrapped callable is over
LeaveEvents(fr, emitted) == <<End(fr.func)>> \o emitted

\* get_evar(evar, curval) for the keys it types: the maximum length (an int, else any
\* casing of 'none'), and the two booleans it knows (any casing of 'true'/'false');
\* a value it cannot read leaves curval
get_evar(environ, evar, curval) ==
    LET val == environ[evar] IN
    IF val = None THEN curval
    ELSE IF evar = "LOGF_MAX_STR_LEN"
    THEN IF IsIntLiteral(val[1]) THEN Some(int(val[1]))
         ELSE IF upper(val[1]) = upper(S_none) THEN None
         ELSE curval
    ELSE IF evar \in {"LOGF_SINGLE_MSG", "LOGF_USE_PRINT"}
    THEN IF upper(val[1]) \in {upper(S_true), <<"F","A","L","S","E">>}
         THEN upper(val[1]) = upper(S_true)
         ELSE curval
    ELSE curval

---------------------------------------------------------------------------
(* Inputs: environments and keyword options the model draws from.          *)

NoEnv == [ev \in EvarSet |-> None]
SetEv(e, k, s) == [e EXCEPT ![k] = Some(s)]
Opt1(name, v) == [NoOpts EXCEPT ![name] = Some(v)]
Opt2(n1, v1, n2, v2) == [NoOpts EXCEPT ![n1] = Some(v1), ![n2] = Some(v2)]

EnvStrings ==
    { <<"t","r","u","e">>, <<"T","r","u","E">>, <<"F","a","l","s","e">>,
      <<"F","A","L","S","E">>, <<"2","5">>,
      <<"y","e","s">>, <<"n","o","n","e">>, <<"N","o","n","E">>, <<"1">>,
      <<"a","b","c">>, <<"w","a","r","n","i","n","g">>, <<>> }

\* the environments with at most n keys set
RECURSIVE EnvsUpTo(_)
EnvsUpTo(n) ==
    IF n = 0 THEN {NoEnv}
    ELSE LET prev == EnvsUpTo(n - 1) IN
         prev \cup {SetEv(e, k, s) : e \in prev, k \in EvarSet, s \in EnvStrings}

BoolOptNames == {"log_args", "log_return", "log_exec_time", "single_msg", "use_print",
                 "log_stack_info", "log_exception", "single_exception", "measure_time"}

\* logf(...) calls that give at most one keyword (measure_time also beside log_exec_time)
OptsCfg ==
    {NoOpts}
    \cup {Opt1(name, b) : name \in BoolOptNames, b \in BOOLEAN}
    \cup {Opt1("max_str_len", None), Opt1("max_str_len", Some(2))}
    \cup {Opt1("use_logger", <<"l","g">>), Opt1("level", LvName(<<"i","n","f","o">>))}
    \cup {Opt2("log_exec_time", TRUE, "measure_time", FALSE)}

\* the environments of the running program
EnvsRuntime ==
    { NoEnv,
      SetEv(NoEnv, "LOGF_SINGLE_MSG", <<"T","r","u","E">>),
      SetEv(NoEnv, "LOGF_LEVEL", <<"w","a","r","n","i","n","g">>) }

\* the logf(...) calls of the running program
OptsRuntime ==
    { NoOpts,
      Opt1("single_msg", TRUE),
      Opt2("single_msg", TRUE, "log_exec_time", FALSE),
      Opt1("use_print", TRUE),
      Opt1("log_args", FALSE),
      Opt1("log_return", FALSE),
      Opt1("log_exception", FALSE),
      Opt1("single_exception", FALSE) }

\* the program's functions are all "def" or all "async def"
CoroChoices == {[f \in Funcs |-> b] : b \in BOOLEAN}

---------------------------------------------------------------------------
(* State and actions.                                                      *)

NoDeco == [made |-> FALSE, raised |-> FALSE, opts |-> NoOpts, cfg |-> LogfParams(NoOpts),
           env |-> NoEnv]

InitRest ==
    /\ deco = NoDeco
    /\ funcs = [f \in Funcs |-> None]
    /\ depth = [t \in Threads |-> None]
    /\ stack = [t \in Threads |-> <<>>]
    /\ trace = [t \in Threads |-> <<>>]
    /\ outcome = [t \in Threads |-> None]
    /\ call = [t \in Threads |-> None]
    /\ pure = None

Init ==
    /\ env \in EnvsRuntime
    /\ sink_ok \in BOOLEAN
    /\ coro \in CoroChoices
    /\ InitRest

\* d = logf(**opts): resolve the configuration, or raise out of the EVARS loop
Logf(opts) ==
    /\ deco' = IF EnvLoopRaises(Env(env))
               THEN [made |-> FALSE, raised |-> TRUE, opts |-> opts,
                     cfg |-> LogfParams(opts), env |-> env]
               ELSE [made |-> TRUE, raised |-> FALSE, opts |-> opts,
                     cfg |-> LogfConfig(opts, env), env |-> env]
    /\ UNCHANGED <<pure, env, sink_ok, coro, funcs, depth, stack, trace, outcome, call>>

\* the configurations of the instrumented functions
ConfigsOf(fs) == {fs[g][1].cfg : g \in {h \in Funcs : fs[h] # None}}

\* "@logf(**opts)" over "def f" in thread t, at module level: logf(**opts) resolves the
\* configuration and wrapper(f) makes f the instrumented callable.  The program
\* decorates its functions before it starts to call them.
Decorate(t, f, opts) ==
    /\ ~EnvLoopRaises(Env(env))
    /\ \A u \in Threads : call[u] = None
    /\ IF depth[t] = None THEN TRUE ELSE depth[t][1] < MaxDepth
    /\ LET cfg == LogfConfig(opts, env) IN
       /\ depth' = [depth EXCEPT ![t] = WrapperDepth(cfg, depth[t])]
       /\ funcs' = [funcs EXCEPT ![f] = Some([cfg |-> cfg, is_async |-> coro[f]])]
    /\ Cardinality(ConfigsOf(funcs')) <= MaxConfigs
    /\ UNCHANGED <<pure, env, sink_ok, coro, deco, stack, trace, outcome, call>>

\* "@logf(**opts)" over the one definition of f
DecorateOnce(t, f, opts) == funcs[f] = None /\ Decorate(t, f, opts)

\* the functions a call of f runs: f and what its body calls, transitively
RECURSIVE Closure(_, _)
Closure(S, n) ==
    IF n = 0 THEN S
    ELSE Closure(S \cup {Callee(g)[1] : g \in {h \in S : Callee(h) # None}}, n - 1)
Chain(f) == Closure({f}, Cardinality(Funcs))

ChainWrapped(fs, f) == \A g \in Chain(f) : fs[g] # None

\* thread t calls the instrumented f(a, k=k) from the top level
Call(t, f, args) ==
    /\ stack[t] = <<>>
    /\ ChainWrapped(funcs, f)
    /\ call' = [call EXCEPT ![t] = Some([func |-> f, args |-> args])]
    /\ outcome' = [outcome EXCEPT ![t] = None]
    /\ trace' = [trace EXCEPT ![t] = <<>>]
    /\ stack' = [stack EXCEPT ![t] = <<NewFrame(f, funcs[f][1], args)>>]
    /\ UNCHANGED <<pure, env, sink_ok, coro, deco, funcs, depth>>

Top(t) == stack[t][Len(stack[t])]
Below(t) == SubSeq(stack[t], 1, Len(stack[t]) - 1)

\* the frames of t once its top frame is over and delivered out to what called it
Popped(t, out) ==
    LET rest == Below(t) IN
    IF rest = <<>> THEN rest
    ELSE [rest EXCEPT ![Len(rest)].sub = Some(out)]

\* the wrapper up to the call of the wrapped callable, and the start of its body
Enter(t) ==
    /\ stack[t] # <<>>
    /\ Top(t).pc = "pre"
    /\ LET fr == CallContext(Top(t))
           em == EnterEmit(fr, env, sink_ok)
           run == [fr EXCEPT !.pc = "running"]
       IN  IF RenderRaises(Top(t))
           THEN /\ trace' = trace
                /\ stack' = [stack EXCEPT ![t] = Popped(t, Raise("StrError", E_str))]
                /\ outcome' = [outcome EXCEPT ![t] =
                                  IF Below(t) = <<>> THEN Some(Raise("StrError", E_str))
                                  ELSE outcome[t]]
           ELSE IF em.raised
           THEN /\ trace' = [trace EXCEPT ![t] = trace[t] \o em.events]
                /\ stack' = [stack EXCEPT ![t] = Popped(t, Raise("SinkError", E_sink))]
                /\ outcome' = [outcome EXCEPT ![t] =
                                  IF Below(t) = <<>> THEN Some(Raise("SinkError", E_sink))
                                  ELSE outcome[t]]
           ELSE /\ trace' = [trace EXCEPT ![t] = trace[t] \o EnterEvents(fr, em.events)]
                /\ stack' = [stack EXCEPT ![t] =
                                Below(t) \o <<run>> \o
                                (IF Callee(fr.func) = None THEN <<>>
                                 ELSE <<NewFrame(Callee(fr.func)[1],
                                                 funcs[Callee(fr.func)[1]][1], fr.args)>>)]
                /\ outcome' = outcome
    /\ UNCHANGED <<pure, env, sink_ok, coro, deco, funcs, depth, call>>

\* what the wrapped callable of frame fr delivered: the innermost function's own
\* outcome, else what the call in its body delivered
Result(fr) == IF Callee(fr.func) = None THEN LeafOutcome(fr.args) ELSE fr.sub[1]

\* the wrapped callable's body is over; the wrapper's except/finally and exit message
Leave(t) ==
    /\ stack[t] # <<>>
    /\ Top(t).pc = "running"
    /\ Callee(Top(t).func) # None => Top(t).sub # None
    /\ LET fr == Top(t)
           r == Result(fr)
           p == WrapperPost(fr, r, depth[t], env, sink_ok)
       IN  /\ trace' = [trace EXCEPT ![t] = trace[t] \o LeaveEvents(fr, p.events)]
           /\ depth' = [depth EXCEPT ![t] = p.depth]
           /\ stack' = [stack EXCEPT ![t] = Popped(t, p.out)]
           /\ outcome' = [outcome EXCEPT ![t] =
                             IF Below(t) = <<>> THEN Some(p.out) ELSE outcome[t]]
    /\ UNCHANGED <<pure, env, sink_ok, coro, deco, funcs, call>>

\* one thread: the program decorates and calls at its top level
Next ==
    \/ \E f \in Funcs, o \in OptsRuntime : Decorate(1, f, o)
    \/ \E a \in CallArgs : Call(1, "f1", a)
    \/ Enter(1)
    \/ Leave(1)

Spec == Init /\ [][Next]_vars

\* configuration resolution alone, over every environment with few keys set
InitCfg ==
    /\ env \in EnvsUpTo(MaxEnvSet)
    /\ sink_ok = TRUE
    /\ coro = [f \in Funcs |-> FALSE]
    /\ InitRest

NextCfg == \E o \in OptsCfg : Logf(o)

SpecCfg == InitCfg /\ [][NextCfg]_vars

\* the utility functions called directly
StrChars == {"a", "b", "c"}

RECURSIVE StringsUpTo(_)
StringsUpTo(n) ==
    IF n = 0 THEN {<<>>}
    ELSE LET prev == StringsUpTo(n - 1) IN
         prev \cup {str \o <<c>> : str \in prev, c \in StrChars}

MaxLengths == {None} \cup {Some(m) : m \in 0..(MaxStrLen + 1)}

\* trunc_str(tstr, max_length) called on its own
TruncStr(tstr, max_length) ==
    /\ pure' = Some([fn |-> "utils.trunc_str", tstr |-> tstr, max_length |-> max_length,
                     out |-> trunc_str(tstr, max_length)])
    /\ UNCHANGED <<env, sink_ok, coro, deco, funcs, depth, stack, trace, outcome, call>>

TruncStrInit(tstr, max_length) ==
    /\ pure' = Some([fn |-> "trunc_str", tstr |-> tstr, max_length |-> max_length,
                     out |-> trunc_str_init(tstr, max_length)])
    /\ UNCHANGED <<env, sink_ok, coro, deco, funcs, depth, stack, trace, outcome, call>>

InitTrunc ==
    /\ env = NoEnv
    /\ sink_ok = TRUE
    /\ coro = [f \in Funcs |-> FALSE]
    /\ InitRest

NextTrunc ==
    \/ \E tstr \in StringsUpTo(MaxStrLen), m \in MaxLengths : TruncStr(tstr, m)
    \/ \E tstr \in StringsUpTo(MaxStrLen), m \in MaxLengths : TruncStrInit(tstr, m)

SpecTrunc == InitTrunc /\ [][NextTrunc]_vars

\* a program that passes and returns an object whose __str__ raises
OptsBroken ==
    {NoOpts, Opt1("log_args", FALSE), Opt2("log_args", FALSE, "log_return", FALSE)}

ArgsBroken == [a : {1, Unprintable}, k : {"w"}]

InitBroken ==
    /\ env = NoEnv
    /\ sink_ok = TRUE
    /\ coro \in CoroChoices
    /\ InitRest

NextBroken ==
    \/ \E f \in Funcs, o \in OptsBroken : DecorateOnce(1, f, o)
    \/ \E a \in ArgsBroken : Call(1, "f1", a)
    \/ Enter(1)
    \/ Leave(1)

SpecBroken == InitBroken /\ [][NextBroken]_vars

\* a program that decorates with and without timing
OptsTiming ==
    {NoOpts, Opt1("measure_time", FALSE), Opt1("log_exec_time", FALSE),
     Opt2("single_msg", TRUE, "log_exec_time", FALSE), Opt1("single_msg", TRUE)}

InitTiming ==
    /\ env = NoEnv
    /\ sink_ok = TRUE
    /\ coro \in CoroChoices
    /\ InitRest

NextTiming ==
    \/ \E f \in Funcs, o \in OptsTiming : DecorateOnce(1, f, o)
    \/ \E a \in CallArgs : Call(1, "f1", a)
    \/ Enter(1)
    \/ Leave(1)

SpecTiming == InitTiming /\ [][NextTiming]_vars

\* identifier.py: the length of an identifier, and two of the identifiers that
\* random.choices can draw
ID_LEN == 6
Ids == { <<"a","b","c","d","e","f">>, <<"Z","9","_","-","q","r">> }

\* re.search(FUNC_RE, msg).group(0): the leading run of characters that are no space
RECURSIVE LeadToken(_)
LeadToken(msg) ==
    IF msg = <<>> \/ Head(msg) = " " THEN <<>>
    ELSE <<Head(msg)>> \o LeadToken(Tail(msg))

\* msg.lstrip(chars): drop the leading characters that occur in chars
RECURSIVE lstrip(_, _)
lstrip(msg, chars) ==
    IF msg # <<>> /\ (\E i \in 1..Len(chars) : chars[i] = Head(msg))
    THEN lstrip(Tail(msg), chars)
    ELSE msg

\* fstr.replace('()', new)
RECURSIVE replace_parens(_, _)
replace_parens(fstr, new) ==
    IF Len(fstr) < 2 THEN fstr
    ELSE IF fstr[1] = "(" /\ fstr[2] = ")"
    THEN new \o replace_parens(SubSeq(fstr, 3, Len(fstr)), new)
    ELSE <<Head(fstr)>> \o replace_parens(Tail(fstr), new)

\* add_identifier(msg) when random.choices draws _id; None when re.search finds no
\* match and .group raises
add_identifier(msg, _id) ==
    LET fstr == LeadToken(msg) IN
    IF fstr = <<>> THEN None
    ELSE Some(replace_parens(fstr, <<"(">> \o _id \o <<")">>) \o lstrip(msg, fstr))

\* add_identifier called on its own, on a message the wrapper has emitted
AddIdentifier(t) ==
    /\ \E i \in 1..Len(trace[t]), _id \in Ids :
          /\ trace[t][i].ev = "msg"
          /\ pure' = Some([fn |-> "add_identifier", msg |-> trace[t][i].text, id |-> _id,
                           out |-> add_identifier(trace[t][i].text, _id)])
    /\ UNCHANGED <<env, sink_ok, coro, deco, funcs, depth, stack, trace, outcome, call>>

\* a program that asks for identifiers in every logf(...) call
OptsIdent ==
    {Opt1("identifier", TRUE), Opt2("identifier", TRUE, "log_args", FALSE),
     Opt2("identifier", TRUE, "single_msg", TRUE)}

InitIdent ==
    /\ env = NoEnv
    /\ sink_ok = TRUE
    /\ coro \in CoroChoices
    /\ InitRest

NextIdent ==
    \/ \E f \in Funcs, o \in OptsIdent : DecorateOnce(1, f, o)
    \/ \E a \in CallArgs : Call(1, "f1", a)
    \/ Enter(1)
    \/ Leave(1)
    \/ AddIdentifier(1)

SpecIdent == InitIdent /\ [][NextIdent]_vars


\* a program that decorates its functions with nothing set in the environment and
\* then sets environment variables: os.environ[key] = value
EnvChanges ==
    { <<"LOGF_LEVEL", <<"w","a","r","n","i","n","g">> >>,
      <<"LOGF_LOG_ARGS", <<"F","a","l","s","e">> >>,
      <<"LOGF_SINGLE_MSG", <<"T","r","u","E">> >> }

OptsSnap == {NoOpts, Opt1("log_args", FALSE), Opt1("level", LvName(<<"e","r","r","o","r">>))}

SetEnviron(key, value) ==
    /\ \A f \in Funcs : funcs[f] # None
    /\ env[key] = None
    /\ env' = SetEv(env, key, value)
    /\ UNCHANGED <<pure, sink_ok, coro, deco, funcs, depth, stack, trace, outcome, call>>

InitSnap ==
    /\ env = NoEnv
    /\ sink_ok = TRUE
    /\ coro \in CoroChoices
    /\ InitRest

NextSnap ==
    \/ \E f \in Funcs, o \in OptsSnap : DecorateOnce(1, f, o)
    \/ \E c \in EnvChanges : SetEnviron(c[1], c[2])
    \/ \E a \in CallArgs : Call(1, "f1", a)
    \/ Enter(1)
    \/ Leave(1)

SpecSnap == InitSnap /\ [][NextSnap]_vars

\* thread t calls the instrumented f(a, k=k) from the top level; the call record keeps
\* the value of the thread's counter at that moment
CallFrom(t, f, args) ==
    /\ stack[t] = <<>>
    /\ ChainWrapped(funcs, f)
    /\ call' = [call EXCEPT ![t] = Some([func |-> f, args |-> args, depth0 |-> depth[t]])]
    /\ outcome' = [outcome EXCEPT ![t] = None]
    /\ trace' = [trace EXCEPT ![t] = <<>>]
    /\ stack' = [stack EXCEPT ![t] = <<NewFrame(f, funcs[f][1], args)>>]
    /\ UNCHANGED <<pure, env, sink_ok, coro, deco, funcs, depth>>

\* a program that decorates with and without the suppression of duplicates, then calls
OptsBalance == {NoOpts, Opt1("single_exception", FALSE), Opt1("log_exception", FALSE)}

InitBalance ==
    /\ env = NoEnv
    /\ sink_ok = TRUE
    /\ coro \in CoroChoices
    /\ InitRest

NextBalance ==
    \/ \E f \in Funcs, o \in OptsBalance : Decorate(1, f, o)
    \/ \E a \in CallArgs : CallFrom(1, "f1", a)
    \/ Enter(1)
    \/ Leave(1)

SpecBalance == InitBalance /\ [][NextBalance]_vars

\* a program that decorates each of its functions once, with or without the
\* suppression of duplicates, then calls
NextOnce ==
    \/ \E f \in Funcs, o \in OptsBalance : DecorateOnce(1, f, o)
    \/ \E a \in CallArgs : CallFrom(1, "f1", a)
    \/ Enter(1)
    \/ Leave(1)

SpecOnce == InitBalance /\ [][NextOnce]_vars

\* the task of thread t is cancelled while its innermost coroutine is suspended at an
\* await of its own: CancelledError is raised there, and the wrapper around it goes on
\* from its "await func(*args, **kwargs)"
Cancel(t) ==
    /\ stack[t] # <<>>
    /\ Top(t).is_async
    /\ Top(t).pc = "running"
    /\ Callee(Top(t).func) = None
    /\ LET fr == Top(t)
           p == WrapperPost(fr, Cancelled, depth[t], env, sink_ok)
       IN  /\ trace' = [trace EXCEPT ![t] = trace[t] \o LeaveEvents(fr, p.events)]
           /\ depth' = [depth EXCEPT ![t] = p.depth]
           /\ stack' = [stack EXCEPT ![t] = Popped(t, p.out)]
           /\ outcome' = [outcome EXCEPT ![t] =
                             IF Below(t) = <<>> THEN Some(p.out) ELSE outcome[t]]
    /\ UNCHANGED <<pure, env, sink_ok, coro, deco, funcs, call>>

\* a program of coroutines whose task may be cancelled from outside
InitCancel ==
    /\ env = NoEnv
    /\ sink_ok = TRUE
    /\ coro = [f \in Funcs |-> TRUE]
    /\ InitRest

NextCancel ==
    \/ \E f \in Funcs, o \in OptsBalance : Decorate(1, f, o)
    \/ \E a \in CallArgs : CallFrom(1, "f1", a)
    \/ Enter(1)
    \/ Leave(1)
    \/ Cancel(1)

SpecCancel == InitCancel /\ [][NextCancel]_vars

\* asyncio tasks of thread 1: each has its own chain of awaiting coroutines, and all
\* of them see the one counter of the thread
Tasks == {1, 2}

\* the awaited callable of task k's top frame is over and the wrapper goes on in
\* thread 1: as Leave, with thread 1's counter
TaskLeave(k) ==
    /\ stack[k] # <<>>
    /\ Top(k).pc = "running"
    /\ Callee(Top(k).func) # None => Top(k).sub # None
    /\ LET fr == Top(k)
           r == Result(fr)
           p == WrapperPost(fr, r, depth[1], env, sink_ok)
       IN  /\ trace' = [trace EXCEPT ![k] = trace[k] \o LeaveEvents(fr, p.events)]
           /\ depth' = [depth EXCEPT ![1] = p.depth]
           /\ stack' = [stack EXCEPT ![k] = Popped(k, p.out)]
           /\ outcome' = [outcome EXCEPT ![k] =
                             IF Below(k) = <<>> THEN Some(p.out) ELSE outcome[k]]
    /\ UNCHANGED <<pure, env, sink_ok, coro, deco, funcs, call>>

OptsTasks == {NoOpts, Opt1("log_return", FALSE)}

InitTasks ==
    /\ env = NoEnv
    /\ sink_ok = TRUE
    /\ coro = [f \in Funcs |-> TRUE]
    /\ InitRest

\* thread 1 decorates its coroutine functions, then runs tasks that call them; a task
\* is suspended only where a wrapper awaits the wrapped coroutine
NextTasks ==
    \/ \E f \in Funcs, o \in OptsTasks : DecorateOnce(1, f, o)
    \/ \E k \in Tasks, a \in CallArgs : Call(k, "f1", a)
    \/ \E k \in Tasks : Enter(k)
    \/ \E k \in Tasks : TaskLeave(k)

SpecTasks == InitTasks /\ [][NextTasks]_vars

\* the functions whose frames emitted the error messages of a trace, in order
ErrorFrames(tr) ==
    LET errs == SelectSeq(tr, LAMBDA e : e.ev = "msg" /\ e.kind = "error") IN
    [i \in 1..Len(errs) |-> errs[i].func]

\* thread t repeats the call it has just completed, same function and arguments; the
\* call record keeps which frames logged an error in the call before
CallAgain(t) ==
    /\ stack[t] = <<>>
    /\ call[t] # None
    /\ outcome[t] # None
    /\ LET f == call[t][1].func
           args == call[t][1].args
       IN  /\ call' = [call EXCEPT ![t] =
                          Some([func |-> f, args |-> args, depth0 |-> depth[t],
                                prev |-> ErrorFrames(trace[t])])]
           /\ stack' = [stack EXCEPT ![t] = <<NewFrame(f, funcs[f][1], args)>>]
    /\ outcome' = [outcome EXCEPT ![t] = None]
    /\ trace' = [trace EXCEPT ![t] = <<>>]
    /\ UNCHANGED <<pure, env, sink_ok, coro, deco, funcs, depth>>

\* a program that decorates, several times over or not, and then repeats its calls
NextRepeat ==
    \/ \E f \in Funcs, o \in OptsTasks : Decorate(1, f, o)
    \/ \E a \in CallArgs : CallFrom(1, "f1", a)
    \/ CallAgain(1)
    \/ Enter(1)
    \/ Leave(1)

SpecRepeat == InitBalance /\ [][NextRepeat]_vars

\* a program that decorates with a small maximum length
OptsArgs ==
    {NoOpts, Opt1("max_str_len", Some(2)),
     Opt2("max_str_len", Some(2), "single_msg", TRUE)}

NextArgs ==
    \/ \E f \in Funcs, o \in OptsArgs : DecorateOnce(1, f, o)
    \/ \E a \in CallArgs : Call(1, "f1", a)
    \/ Enter(1)
    \/ Leave(1)

SpecArgs == InitTiming /\ [][NextArgs]_vars

\* a program that decorates for the logger and for print
OptsPrint == {NoOpts, Opt1("use_print", TRUE)}

NextPrint ==
    \/ \E f \in Funcs, o \in OptsPrint : DecorateOnce(1, f, o)
    \/ \E a \in CallArgs : Call(1, "f1", a)
    \/ Enter(1)
    \/ Leave(1)

SpecPrint == InitTiming /\ [][NextPrint]_vars

\* worker threads: thread 1 decorates each function once, the other threads call
Workers == Threads \ {1}

\* the decorations of the threaded program: the default one, and one that disables
\* both the suppression and the logging of arguments
OptsThreads == {NoOpts, Opt2("single_exception", FALSE, "log_args", FALSE)}

InitThreads ==
    /\ env = NoEnv
    /\ sink_ok = TRUE
    /\ coro \in CoroChoices
    /\ InitRest

NextThreads ==
    \/ \E f \in Funcs, o \in OptsThreads : DecorateOnce(1, f, o)
    \/ \E t \in Workers, a \in CallArgs : Call(t, "f1", a)
    \/ \E t \in Workers : Enter(t)
    \/ \E t \in Workers : Leave(t)

SpecThreads == InitThreads /\ [][NextThreads]_vars


---------------------------------------------------------------------------
(* What the uninstrumented function does.                                  *)

\* the plain f(a, k=k): every function of the chain returns what the next one
\* returned and lets its exception through, so the outcome is the innermost one's
Plain(f, args) == LeafOutcome(args)

\* thread t has completed a top-level call
Done(t) == call[t] # None /\ outcome[t] # None /\ stack[t] = <<>>

\* the configuration of the instrumented f
CfgOf(f) == funcs[f][1].cfg

\* the messages of a trace, those of one kind, those of one function
Msgs(tr) == SelectSeq(tr, LAMBDA e : e.ev = "msg")
ErrorMsgs(tr) == SelectSeq(tr, LAMBDA e : e.ev = "msg" /\ e.kind = "error")
MsgsOf(tr, f) == SelectSeq(tr, LAMBDA e : e.ev = "msg" /\ e.func = f)

\* thread t has completed the three-level nested-raise scenario: f1 -> f2 -> f3 where
\* only f3 raises, and the exception came out of f1
NestedRaise(t) ==
    /\ Done(t)
    /\ call[t][1].func = "f1"
    /\ LeafOutcome(call[t][1].args).kind = "raise"
    /\ outcome[t][1] = LeafOutcome(call[t][1].args)

\* every instrumented function was decorated with suppression enabled / disabled
AllSuppressing == \A f \in Funcs : CfgOf(f).log_exception /\ CfgOf(f).single_exception
AllUnsuppressed == \A f \in Funcs : CfgOf(f).log_exception /\ ~CfgOf(f).single_exception

\* the error message names function f and carries the exception text
ErrorNames(m, f, emsg) ==
    m.func = f /\ Contains(m.text, func_name(f)) /\ Contains(m.text, emsg)

\* what the step of t that ends its top frame hands to the caller of that frame
PassedOut(t) ==
    IF Below(t) = <<>> THEN outcome'[t][1] ELSE stack'[t][Len(stack'[t])].sub[1]

\* the events the step of t adds to its trace
Added(t) == SubSeq(trace'[t], Len(trace[t]) + 1, Len(trace'[t]))

---------------------------------------------------------------------------
(* Properties.                                                             *)

\* C1 (as claimed): a completed call of the instrumented callable has the outcome of
\* the plain callable - the same returned value, or the same exception type and
\* message - whatever the configuration; the wrapper raises nothing of its own.
C1_Transparency ==
    \A t \in Threads :
        Done(t) => outcome[t][1] = Plain(call[t][1].func, call[t][1].args)

C3_OneErrorAtInnermost ==
    \A t \in Threads :
        (NestedRaise(t) /\ AllSuppressing) =>
            /\ Len(ErrorMsgs(trace[t])) = 1
            /\ ErrorNames(ErrorMsgs(trace[t])[1], "f3", outcome[t][1].emsg)

\* C4 (as claimed): with f1 -> f2 -> f3 all decorated with log_exception and without
\* single_exception, and only f3 raising, exactly three error messages are emitted, one
\* per frame naming its function, whatever the thread's depth counter was.
C4_ThreeErrorsUnsuppressed ==
    \A t \in Threads :
        (NestedRaise(t) /\ AllUnsuppressed) =>
            /\ Len(ErrorMsgs(trace[t])) = 3
            /\ ErrorNames(ErrorMsgs(trace[t])[1], "f3", outcome[t][1].emsg)
            /\ ErrorNames(ErrorMsgs(trace[t])[2], "f2", outcome[t][1].emsg)
            /\ ErrorNames(ErrorMsgs(trace[t])[3], "f1", outcome[t][1].emsg)

\* the error messages the threads of T emitted, counted together
RECURSIVE SumErrors(_)
SumErrors(T) ==
    IF T = {} THEN 0
    ELSE LET t == CHOOSE x \in T : TRUE IN
         Len(ErrorMsgs(trace[t])) + SumErrors(T \ {t})

\* C5 (as claimed): when every one of the N worker threads has run the nested-raise
\* scenario on functions decorated in thread 1, the threads together emitted N error
\* messages when suppression is enabled and 3*N when it is disabled.
C5_PerThreadCounts ==
    (\A t \in Workers : NestedRaise(t)) =>
        /\ AllSuppressing => SumErrors(Workers) = Cardinality(Workers)
        /\ AllUnsuppressed => SumErrors(Workers) = 3 * Cardinality(Workers)

\* the kinds of a sequence of messages
Kinds(ms) == [i \in 1..Len(ms) |-> ms[i].kind]

\* C6: a call that returned emitted, for each instrumented function of the chain, exactly
\* the enter and then the exit message, or exactly one message when the function's
\* resolved single_msg is set, by option or by LOGF_SINGLE_MSG (no LOGF_LEVEL
\* threshold being set).
C6_MessageCount ==
    \A t \in Threads : \A f \in Funcs :
        (Done(t) /\ outcome[t][1].kind = "return" /\ env["LOGF_LEVEL"] = None) =>
            Kinds(MsgsOf(trace[t], f)) =
                IF CfgOf(f).single_msg THEN <<"single">> ELSE <<"enter", "exit">>

\* C6 happens: a returned call through a default-configured f1 with two messages and a
\* single_msg f2 with one
C6_Witness ==
    /\ Done(1)
    /\ outcome[1][1].kind = "return"
    /\ CfgOf("f1") = Defaults
    /\ CfgOf("f2").single_msg
    /\ Len(MsgsOf(trace[1], "f1")) = 2
    /\ Len(MsgsOf(trace[1], "f2")) = 1

\* the message m carries text of the arguments
HasArgText(m, args) ==
    Contains(m.text, str_args(args)) \/ Contains(m.text, str_kwargs(args))

\* C7: with log_args disabled for every function of the chain, two completed calls with
\* different arguments and the same outcome emitted the same messages, none of them
\* carrying argument text, and no invocation rendered its arguments.
C7_ArgsNotLogged ==
    /\ \A t \in Workers : \A u \in Workers :
          ( /\ Done(t) /\ Done(u)
            /\ call[t][1].func = call[u][1].func
            /\ call[t][1].args # call[u][1].args
            /\ outcome[t] = outcome[u]
            /\ \A f \in Funcs : ~CfgOf(f).log_args )
          => /\ Msgs(trace[t]) = Msgs(trace[u])
             /\ \A i \in 1..Len(trace[t]) : ~HasArgText(trace[t][i], call[t][1].args)
    /\ \A t \in Threads : \A i \in 1..Len(stack[t]) :
          ~stack[t][i].cfg.log_args =>
              ~stack[t][i].rendered /\ stack[t][i].args_str = <<>>

\* C7 happens: two workers completed calls with different arguments and the same
\* outcome on functions decorated with log_args disabled, and messages were emitted
C7_Witness ==
    /\ Done(2) /\ Done(3)
    /\ call[2][1].args # call[3][1].args
    /\ outcome[2] = outcome[3]
    /\ \A f \in Funcs : ~CfgOf(f).log_args
    /\ Len(Msgs(trace[2])) > 0

\* C8: in a thread's trace every enter message of f precedes the start of f's body, every
\* exit, single or error message of f follows the end of f's body, and no message of f
\* lies between the two.
C8_Ordering ==
    \A t \in Threads : \A i \in 1..Len(trace[t]) :
        LET e == trace[t][i]
            began == \E j \in 1..(i - 1) : trace[t][j] = Begin(e.func)
            ended == \E j \in 1..(i - 1) : trace[t][j] = End(e.func)
        IN  e.ev = "msg" =>
                /\ e.kind = "enter" => ~began
                /\ e.kind \in {"exit", "single", "error"} => ended
                /\ began => ended

\* C8 happens: a completed call whose trace holds enter and exit messages around the
\* bodies of all three functions
C8_Witness ==
    /\ Done(1)
    /\ Len(SelectSeq(trace[1], LAMBDA e : e.kind = "enter")) = 3
    /\ Len(SelectSeq(trace[1], LAMBDA e : e.kind = "exit")) = 3
    /\ Len(SelectSeq(trace[1], LAMBDA e : e.ev = "begin")) = 3

\* the option an override key belongs to
OptionOf(key) ==
    CASE key = "LOGF_USE_PRINT" -> "use_print"
      [] key = "LOGF_SINGLE_MSG" -> "single_msg"
      [] key = "LOGF_MAX_STR_LEN" -> "max_str_len"
      [] key = "LOGF_LEVEL" -> "level"
      [] key = "LOGF_LOG_ARGS" -> "log_args"
      [] key = "LOGF_LOG_RETURN" -> "log_return"
      [] key = "LOGF_LOG_EXEC_TIME" -> "log_exec_time"
      [] key = "LOGF_USE_LOGGER" -> "use_logger"
      [] key = "LOGF_STACK_INFO" -> "log_stack_info"
      [] key = "LOGF_LOG_EXCEPTION" -> "log_exception"
      [] key = "LOGF_SINGLE_EXCEPTION" -> "single_exception"

BoolKeys == EvarSet \ {"LOGF_MAX_STR_LEN", "LOGF_LEVEL", "LOGF_USE_LOGGER"}
S_false == <<"f","a","l","s","e">>

\* the override value x of key is one of the spellings its type admits
WellFormed(key, x) ==
    CASE key \in BoolKeys -> lower(x) \in {S_true, S_false}
      [] key = "LOGF_MAX_STR_LEN" -> lower(x) = S_none \/ IsIntLiteral(x)
      [] key = "LOGF_LEVEL" -> upper(x) \in LevelNames \/ IsIntLiteral(x)
      [] key = "LOGF_USE_LOGGER" -> Len(x) > 0

\* the value a well-formed override x of key stands for
ParsedOverride(key, x) ==
    CASE key \in BoolKeys -> lower(x) = S_true
      [] key = "LOGF_MAX_STR_LEN" -> IF lower(x) = S_none THEN None ELSE Some(int(x))
      [] key = "LOGF_LEVEL" -> IF IsIntLiteral(x) THEN int(x) ELSE getLevelName(upper(x))
      [] key = "LOGF_USE_LOGGER" -> Some(x)

\* the value of key's option that logf(**opts) resolved, levels by their number
Resolved(key) ==
    IF key = "LOGF_LEVEL" THEN loglevel_int(deco.cfg.level)
    ELSE deco.cfg[OptionOf(key)]

\* the value of key's option without the override: the keyword given (measure_time
\* standing for log_exec_time), else the default
Fallback(key) ==
    LET name == OptionOf(key) IN
    IF key = "LOGF_LEVEL"
    THEN loglevel_int(deco.opts.level)
    ELSE IF name = "log_exec_time" /\ deco.opts.measure_time # None
    THEN deco.opts.measure_time[1]
    ELSE IF deco.opts[name] = None THEN Defaults[name]
    ELSE IF name \in Nullable THEN deco.opts[name]
    ELSE deco.opts[name][1]

\* C9 (as claimed): after logf(**opts), every option whose override key is set to a
\* well-formed value has the override's value, whatever was passed; every option whose
\* override key is not set has the value passed, else its default.
C9_OverridePrecedence ==
    deco.made =>
        \A key \in EvarSet :
            IF deco.env[key] = None
            THEN Resolved(key) = Fallback(key)
            ELSE WellFormed(key, deco.env[key][1]) =>
                     Resolved(key) = ParsedOverride(key, deco.env[key][1])

\* C10 (as claimed): after logf(**opts) under a malformed override of a boolean option,
\* of the maximum length or of the level, logf has not raised and the option has the
\* value passed, else its default.
C10_MalformedIgnored ==
    (deco.made \/ deco.raised) =>
        \A key \in BoolKeys \cup {"LOGF_MAX_STR_LEN", "LOGF_LEVEL"} :
            (deco.env[key] # None /\ ~WellFormed(key, deco.env[key][1])) =>
                ~deco.raised /\ Resolved(key) = Fallback(key)

\* x spells word in some casing: letter by letter, the lower-case or the upper-case one
IsCasingOf(x, word) ==
    /\ Len(x) = Len(word)
    /\ \A i \in 1..Len(word) :
          \/ x[i] = word[i]
          \/ \E j \in 1..Len(LowerLetters) :
                LowerLetters[j] = word[i] /\ x[i] = UpperLetters[j]

\* x is the decimal numeral of a natural number, without sign or leading zero
IsNumeral(x) == IsDigits(x) /\ (Len(x) > 1 => x[1] # "0")

\* C11: after logf(**opts), a boolean override spelled 'true' or 'false' in any casing
\* gives that boolean, a maximum-length override spelled 'none' in any casing gives the
\* unlimited length under which nothing is truncated, and a numeral gives its integer;
\* get_evar reads the same spellings the same way for the keys it types.
C11_CaseInsensitiveParsing ==
    /\ deco.made =>
          /\ \A key \in BoolKeys :
                deco.env[key] # None =>
                    /\ IsCasingOf(deco.env[key][1], S_true) => Resolved(key) = TRUE
                    /\ IsCasingOf(deco.env[key][1], S_false) => Resolved(key) = FALSE
          /\ deco.env["LOGF_MAX_STR_LEN"] # None =>
                LET x == deco.env["LOGF_MAX_STR_LEN"][1] IN
                /\ IsCasingOf(x, S_none) =>
                      /\ deco.cfg.max_str_len = None
                      /\ \A str \in EnvStrings : trunc_str(str, deco.cfg.max_str_len) = str
                /\ IsNumeral(x) =>
                      /\ deco.cfg.max_str_len # None
                      /\ IntStr(deco.cfg.max_str_len[1]) = x
    /\ \A key \in {"LOGF_SINGLE_MSG", "LOGF_USE_PRINT"} : \A cur \in BOOLEAN :
          env[key] # None =>
              /\ IsCasingOf(env[key][1], S_true) => get_evar(env, key, cur) = TRUE
              /\ IsCasingOf(env[key][1], S_false) => get_evar(env, key, cur) = FALSE
    /\ env["LOGF_MAX_STR_LEN"] # None =>
          LET x == env["LOGF_MAX_STR_LEN"][1] IN
          /\ IsCasingOf(x, S_none) => get_evar(env, "LOGF_MAX_STR_LEN", Some(7)) = None
          /\ IsNumeral(x) => IntStr(get_evar(env, "LOGF_MAX_STR_LEN", None)[1]) = x

\* C11 happens: logf() resolved single_msg to TRUE under LOGF_SINGLE_MSG=TruE
C11_Witness ==
    /\ deco.made
    /\ deco.env["LOGF_SINGLE_MSG"] = Some(<<"T","r","u","E">>)
    /\ deco.opts = NoOpts
    /\ deco.cfg.single_msg

\* C12 (as claimed): trunc_str(s, max) is s when max is None or len(s) <= max, and is
\* the first max characters of s followed by '...' when len(s) > max.
C12_Truncation ==
    pure # None =>
        LET p == pure[1] IN
        p.out = IF p.max_length = None \/ Len(p.tstr) <= p.max_length[1]
                THEN p.tstr
                ELSE SubSeq(p.tstr, 1, p.max_length[1]) \o <<".", ".", ".">>

\* C13 (as claimed): a completed call whose argument, which is also its return value,
\* has a string conversion that raises, delivered what the plain callable delivers.
C13_BrokenStrContained ==
    \A t \in Threads :
        (Done(t) /\ StrRaises(call[t][1].args.a)) =>
            outcome[t][1] = Plain(call[t][1].func, call[t][1].args)

\* how many times sub occurs in str
Occurrences(str, sub) ==
    Cardinality({i \in 0..(Len(str) - Len(sub)) : SubSeq(str, i + 1, i + Len(sub)) = sub})

StartsWith(str, prefix) ==
    Len(prefix) <= Len(str) /\ SubSeq(str, 1, Len(prefix)) = prefix

\* the exit or single message m has no time field: the bar follows the name at once
NoTimeField(m) == StartsWith(m.text, func_name(m.func) \o <<"(", ")", " ", "|">>)

\* the exit or single message m has one time field, a number and its unit, after the name
OneTimeField(m) ==
    /\ StartsWith(m.text, func_name(m.func) \o <<"(", ")", " ">> \o ExecTimeStr \o <<"s", " ", "|">>)
    /\ Occurrences(m.text, ExecTimeStr) = 1

\* C14 (as claimed): a completed call delivered what the plain callable delivers whether
\* timing is on or off, and every exit or single message it emitted has no time field
\* when its function's timing is disabled and exactly one when it is enabled.
C14_TimeField ==
    \A t \in Threads :
        Done(t) =>
            /\ outcome[t][1] = Plain(call[t][1].func, call[t][1].args)
            /\ \A i \in 1..Len(trace[t]) :
                  LET m == trace[t][i] IN
                  (m.ev = "msg" /\ m.kind \in {"exit", "single"}) =>
                      IF CfgOf(m.func).log_exec_time THEN OneTimeField(m) ELSE NoTimeField(m)

\* the minimum level configured by LOGF_LEVEL, DEBUG when it is not set
Threshold == loglevel_int(get_evar_LEVEL(env, Some(LvName(L_DEBUG))))

\* C15 (as claimed): every enter, exit or single message handed to the logger or to
\* print belongs to a function whose configured level is at or above the LOGF_LEVEL
\* threshold, and a call that returned emitted messages for every function whose level
\* is at or above it.
C15_LevelGate ==
    \A t \in Threads :
        /\ \A i \in 1..Len(trace[t]) :
              LET m == trace[t][i] IN
              (m.ev = "msg" /\ m.kind \in {"enter", "exit", "single"}) =>
                  loglevel_int(CfgOf(m.func).level) >= Threshold
        /\ (Done(t) /\ outcome[t][1].kind = "return") =>
              \A f \in Funcs :
                  loglevel_int(CfgOf(f).level) >= Threshold => Len(MsgsOf(trace[t], f)) > 0


\* the identifier a message embeds: what stands between the parentheses that follow
\* the function's name
IdOf(text) ==
    LET tok == LeadToken(text)
        open == {i \in 1..Len(tok) : tok[i] = "("}
    IN  IF open = {} THEN <<>>
        ELSE LET o == CHOOSE i \in open : \A j \in open : i <= j
                 close == {i \in (o + 1)..Len(tok) : tok[i] = ")"}
             IN  IF close = {} THEN <<>>
                 ELSE SubSeq(tok, o + 1, (CHOOSE i \in close : \A j \in close : i <= j) - 1)

\* C16 (as claimed): with identifiers asked for and two messages per call, the enter
\* message and the exit message of a completed invocation both embed an identifier,
\* and it is the same one.
C16_IdentifierCorrelation ==
    \A t \in Threads :
        (Done(t) /\ outcome[t][1].kind = "return") =>
            \A f \in Funcs :
                LET ms == MsgsOf(trace[t], f) IN
                (Len(ms) = 2 /\ ms[1].kind = "enter" /\ ms[2].kind = "exit") =>
                    /\ Len(IdOf(ms[1].text)) = ID_LEN
                    /\ IdOf(ms[1].text) = IdOf(ms[2].text)


\* every function is decorated with a plain @logf() and nothing is set in the environment
AllDefault == env = NoEnv /\ \A f \in Funcs : CfgOf(f) = LogfConfig(NoOpts, NoEnv)

\* C17 (as claimed): when functions decorated with the default configuration raise,
\* every record logged for the call is an enter record at DEBUG that does not contain
\* the exception's type name, a synchronous function logs exactly one record, and the
\* exception reaches the caller.
C17_RaiseLogsEnterOnly ==
    \A t \in Threads :
        (NestedRaise(t) /\ AllDefault /\ sink_ok) =>
            /\ \A i \in 1..Len(Msgs(trace[t])) :
                  LET m == Msgs(trace[t])[i] IN
                  /\ m.kind = "enter"
                  /\ m.level = getLevelName(L_DEBUG)
                  /\ ~Contains(m.text, TypeName(outcome[t][1].etype))
            /\ \A f \in Funcs : ~coro[f] => Len(MsgsOf(trace[t], f)) = 1
            /\ outcome[t][1] = Plain(call[t][1].func, call[t][1].args)


\* the messages a returned call of f emits when every emission sees environ
MsgsUnder(f, args, environ) ==
    LET fr == CallContext(NewFrame(f, funcs[f][1], args)) IN
    EnterEmit(fr, environ, TRUE).events \o ExitPart(fr, Plain(f, args), environ, TRUE).events

Aware(f) == CfgOf(f).log_exception /\ CfgOf(f).single_exception

\* C19 (as claimed): when a top-level call of a suppression-aware function has
\* completed, returning or raising, the thread's counter has the value it had just
\* before the call, and is absent if it was absent.
C19_CounterBalance ==
    \A t \in Threads :
        (Done(t) /\ Aware(call[t][1].func)) => depth[t] = call[t][1].depth0


\* the step is the except clause of thread t's top frame, decorated with the default
\* policy (log_exception and single_exception), catching an exception
CatchesUnderDefault(t) ==
    IF stack[t] = <<>> THEN FALSE
    ELSE IF Top(t).pc # "running" \/ stack'[t] = stack[t] THEN FALSE
    ELSE /\ Top(t).cfg.log_exception
         /\ Top(t).cfg.single_exception
         /\ Result(Top(t)).kind = "raise"

\* the step of t emits an error message
EmitsError(t) == \E i \in 1..Len(Added(t)) : Added(t)[i].kind = "error"

\* C20 (as claimed): a frame under the default policy that catches an exception emits
\* an error message only if the thread's counter is exactly 1 at that moment, and emits
\* nothing when the counter is greater than 1.
C20_EmitOnlyAtOne ==
    [][\A t \in Threads :
          CatchesUnderDefault(t) =>
              /\ EmitsError(t) => depth[t] = Some(1)
              /\ (IF depth[t] = None THEN FALSE ELSE depth[t][1] > 1) => Added(t) = <<End(Top(t).func)>>
      ]_vars


\* the configuration cfg has both log_exception and single_exception
AwareCfg(cfg) == cfg.log_exception /\ cfg.single_exception

\* C21 (as claimed): a step that changes a thread's counter is the decoration of a
\* function with both log_exception and single_exception, or belongs to the
\* invocation of one: decorating or invoking any other callable leaves it unchanged.
C21_OnlyAwareTouch ==
    [][\A t \in Threads :
          depth'[t] # depth[t] =>
              IF funcs' # funcs
              THEN \E f \in Funcs : funcs'[f] # funcs[f] /\ AwareCfg(funcs'[f][1].cfg)
              ELSE IF stack[t] = <<>> THEN FALSE ELSE AwareCfg(Top(t).cfg)
      ]_vars


\* the step is the end of thread t's top frame: its except and finally clauses, or
\* its exit message
LeaveStep(t) ==
    IF stack[t] = <<>> THEN FALSE
    ELSE Top(t).pc = "running" /\ stack'[t] # stack[t]

\* C22: the cleanup of a frame leaves an absent counter absent, never leaves a counter
\* that is zero or negative, and puts no exception of its own in the place of the one
\* the wrapped callable raised.
C22_DecrementTolerant ==
    [][\A t \in Threads :
          LeaveStep(t) =>
              /\ depth[t] = None => depth'[t] = None
              /\ IF depth'[t] = None THEN TRUE ELSE depth'[t][1] >= 1
              /\ Result(Top(t)).kind = "raise" => PassedOut(t) = Result(Top(t))
      ]_vars

\* C22 happens: a call ran to its end through frames with a finally clause while the
\* thread had no counter
C22_Witness ==
    /\ Done(1)
    /\ call[1][1].depth0 = None
    /\ depth[1] = None
    /\ \A f \in Funcs : CfgOf(f).log_exception
    /\ \E f \in Funcs : AwareCfg(CfgOf(f))


\* the step ends a frame of thread t whose awaited callable was cancelled: the
\* cancellation itself, or an outer frame receiving the CancelledError
CancelledStep(t) ==
    IF stack[t] = <<>> \/ stack'[t] = stack[t] THEN FALSE
    ELSE IF Top(t).pc # "running" THEN FALSE
    ELSE IF Callee(Top(t).func) = None
    THEN PassedOut(t) = Cancelled
    ELSE Top(t).sub = Some(Cancelled)

\* C23: when the awaited callable of an asynchronous wrapper with a try block
\* (log_exception) is cancelled, the counter, if the thread has one, is decremented in
\* that step and deleted at zero, no message is emitted and the CancelledError goes on
\* to the caller.
C23_CancelDecrements ==
    [][\A t \in Threads :
          (CancelledStep(t) /\ Top(t).cfg.log_exception) =>
              /\ depth[t] # None =>
                    depth'[t] = IF depth[t][1] = 1 THEN None ELSE Some(depth[t][1] - 1)
              /\ depth[t] = None => depth'[t] = None
              /\ Added(t) = <<End(Top(t).func)>>
              /\ PassedOut(t) = Cancelled
      ]_vars

\* C23 happens: a cancelled call came out of its outermost wrapper, and the counter the
\* thread had before the call has been decremented
C23_Witness ==
    /\ Done(1)
    /\ outcome[1][1] = Cancelled
    /\ call[1][1].depth0 # None
    /\ depth[1] # call[1][1].depth0


\* C24 (as claimed): with every coroutine function decorated with the default
\* suppression, each task of the thread whose innermost coroutine raised has logged
\* exactly one error message, however the tasks were interleaved.
C24_TaskLoggedOnce ==
    \A k \in Tasks :
        (NestedRaise(k) /\ AllSuppressing) => Len(ErrorMsgs(trace[k])) = 1


\* the step takes thread t's top frame, decorated with log_exception and
\* single_exception, from the wrapper's entry into the wrapped callable
BeginsProtectedBody(t) ==
    IF stack[t] = <<>> \/ Len(stack'[t]) < Len(stack[t]) THEN FALSE
    ELSE /\ Top(t).pc = "pre"
         /\ stack'[t][Len(stack[t])].pc = "running"
         /\ AwareCfg(Top(t).cfg)

\* C25 (as claimed): decorating a function leaves every thread's counter as it was,
\* absent if it was absent; the counter goes up by one, or is created at 1, in the
\* step in which a suppression-aware wrapper starts its protected body.
C25_IncrementOnEntry ==
    [][\A t \in Threads :
          /\ funcs' # funcs => depth'[t] = depth[t]
          /\ BeginsProtectedBody(t) =>
                depth'[t] = IF depth[t] = None THEN Some(1) ELSE Some(depth[t][1] + 1)
      ]_vars


\* thread t has completed a repetition of its previous call
Repeated(t) == Done(t) /\ "prev" \in DOMAIN call[t][1]

\* C26 (as claimed): when a thread repeats the nested-raise call, same functions and
\* same arguments, the repetition's error messages come from the same frames, in the
\* same number, as those of the call before, however many decorations were made.
C26_RepetitionsAgree ==
    \A t \in Threads :
        (Repeated(t) /\ NestedRaise(t)) => ErrorFrames(trace[t]) = call[t][1].prev


\* C27: in every reachable state every thread's counter is absent or at least 1.
C27_CounterAbsentOrPositive ==
    \A t \in Threads : IF depth[t] = None THEN TRUE ELSE depth[t][1] >= 1

\* C27 happens: a call that started with a counter has brought it down to zero, where
\* it was removed
C27_Witness ==
    /\ Done(1)
    /\ call[1][1].depth0 # None
    /\ depth[1] = None


\* frame fr as the synchronous and as the asynchronous decorator body would run it
AsSync(fr) == [fr EXCEPT !.is_async = FALSE]
AsAsync(fr) == [fr EXCEPT !.is_async = TRUE]

\* thread t's top frame has its wrapped callable's outcome at hand
ReadyToLeave(t) ==
    IF stack[t] = <<>> THEN FALSE
    ELSE Top(t).pc = "running" /\ (Callee(Top(t).func) # None => Top(t).sub # None)

\* C28 (as claimed): wherever a frame stands, the synchronous and the asynchronous
\* body, given its configuration, the thread's counter and the wrapped callable's
\* outcome, emit the same messages, leave the same counter and deliver the same result
\* or exception.
C28_SyncAsyncEquivalent ==
    \A t \in Threads :
        /\ (stack[t] # <<>> /\ ~ReadyToLeave(t) /\ ~RenderRaises(Top(t))) =>
              EnterEmit(CallContext(AsSync(Top(t))), env, sink_ok)
                  = EnterEmit(CallContext(AsAsync(Top(t))), env, sink_ok)
        /\ ReadyToLeave(t) =>
              WrapperPost(AsSync(Top(t)), Result(Top(t)), depth[t], env, sink_ok)
                  = WrapperPost(AsAsync(Top(t)), Result(Top(t)), depth[t], env, sink_ok)


\* the message text carries the rendering str in full although it is more than the
\* ellipsis marker longer than n
Untruncated(text, str, n) == Len(str) > n + Len(Ellipsis) /\ Contains(text, str)

\* C29 (as claimed): with a maximum length configured, no enter or single message
\* carries a rendering of the positional arguments or of the keyword arguments that is
\* longer than the maximum plus the ellipsis marker.
C29_ArgsTruncated ==
    \A t \in Threads : \A i \in 1..Len(trace[t]) :
        LET m == trace[t][i] IN
        (m.ev = "msg" /\ m.kind \in {"enter", "single"}
                      /\ CfgOf(m.func).max_str_len # None) =>
            LET n == CfgOf(m.func).max_str_len[1] IN
            /\ ~Untruncated(m.text, str_args(call[t][1].args), n)
            /\ ~Untruncated(m.text, str_kwargs(call[t][1].args), n)


\* the error messages the step of t adds to its trace
AddedErrors(t) == SelectSeq(Added(t), LAMBDA e : e.ev = "msg" /\ e.kind = "error")

\* C30 (as claimed): a frame with log_exception that catches an exception while the
\* thread's counter is exactly 1 emits exactly one error message, through print when
\* it was decorated with use_print and through the logger otherwise, and re-raises.
C30_ErrorEitherSink ==
    [][\A t \in Threads :
          (LeaveStep(t) /\ Top(t).cfg.log_exception /\ depth[t] = Some(1)
                        /\ Result(Top(t)).kind = "raise") =>
              /\ Len(AddedErrors(t)) = 1
              /\ AddedErrors(t)[1].via = IF Top(t).cfg.use_print THEN "print" ELSE "log"
              /\ PassedOut(t) = Result(Top(t))
      ]_vars

====
